---- MODULE Spec2Model ----
(***************************************************************************)
(* Firebase BI API (src/main.py): a Flask gateway of read-only GET         *)
(* endpoints filtered by enterpriseId.  The state is the process-wide      *)
(* state of each gunicorn worker process (FIREBASE_AVAILABLE, db), the     *)
(* route table, the contents of the Firestore store, and for each worker   *)
(* the request it is handling: a request is handled in steps, one step per *)
(* backend read, so that the reads of concurrent requests interleave.      *)
(***************************************************************************)
EXTENDS Integers, Sequences, FiniteSets, TLC

VARIABLES FIREBASE_AVAILABLE, db, new_collections, url_map, store, workers

vars == <<FIREBASE_AVAILABLE, db, new_collections, url_map, store, workers>>

(***************************************************************************)
(* Bounds of the model.                                                    *)
(***************************************************************************)
\* documents of tenant T1 in the large Checklist collection: more than the limit
BulkDocs == 101
\* the days since 0001-01-01 of the two clock readings of datetime.now()
FirstDay == 739922

(***************************************************************************)
(* Program constants.                                                      *)
(***************************************************************************)
\* get_firebase_collection(collection_name, enterprise_id, limit=100)
DefaultLimit == 100
\* request.args.get('days', 30)
DefaultDays == 30
\* gunicorn.conf.py: workers = int(os.environ.get('WEB_CONCURRENCY', 2))
NumWorkers == 2
\* datetime.date.max.toordinal(), the last day a datetime can hold
MaxOrdinal == 3652059
\* the largest magnitude of timedelta(days=...)
MaxDeltaDays == 999999999

(***************************************************************************)
(* Python strings: TLA+ strings, taken apart with Len, SubSeq and \o.      *)
(***************************************************************************)
CharAt(s, i) == SubSeq(s, i, i)

\* the characters of the model's strings in code-point order (str comparison)
Alphabet == " '+-0123456789ABCDEFGHIJKLMNOPQRSTUVWXYZ_abcdefghijklmnopqrstuvwxyz"

Ord(c) == IF \E i \in 1..Len(Alphabet) : CharAt(Alphabet, i) = c
          THEN CHOOSE i \in 1..Len(Alphabet) : CharAt(Alphabet, i) = c
          ELSE Len(Alphabet) + 1

\* a < b for Python strings: lexicographic by code point
RECURSIVE StrLess(_, _)
StrLess(a, b) ==
    IF Len(b) = 0 THEN FALSE
    ELSE IF Len(a) = 0 THEN TRUE
    ELSE IF CharAt(a, 1) = CharAt(b, 1)
         THEN StrLess(SubSeq(a, 2, Len(a)), SubSeq(b, 2, Len(b)))
         ELSE Ord(CharAt(a, 1)) < Ord(CharAt(b, 1))

\* sorted(list(S)) for a set of strings
RECURSIVE sorted(_)
sorted(S) ==
    IF S = {} THEN <<>>
    ELSE LET m == CHOOSE x \in S : \A y \in S \ {x} : StrLess(x, y)
         IN  <<m>> \o sorted(S \ {m})

IsSpace(c) == c = " "

\* str.strip(): whitespace removed at both ends
RECURSIVE lstrip(_)
lstrip(s) == IF Len(s) > 0 /\ IsSpace(CharAt(s, 1))
             THEN lstrip(SubSeq(s, 2, Len(s))) ELSE s

RECURSIVE rstrip(_)
rstrip(s) == IF Len(s) > 0 /\ IsSpace(CharAt(s, Len(s)))
             THEN rstrip(SubSeq(s, 1, Len(s) - 1)) ELSE s

strip(s) == rstrip(lstrip(s))

Digits == "0123456789"

IsDigit(c) == \E i \in 1..10 : CharAt(Digits, i) = c

DigitVal(c) == (CHOOSE i \in 1..10 : CharAt(Digits, i) = c) - 1

AllDigits(s) == Len(s) > 0 /\ \A i \in 1..Len(s) : IsDigit(CharAt(s, i))

RECURSIVE DigitsVal(_)
DigitsVal(s) == IF Len(s) = 0 THEN 0
                ELSE 10 * DigitsVal(SubSeq(s, 1, Len(s) - 1)) + DigitVal(CharAt(s, Len(s)))

(***************************************************************************)
(* Exceptions, and the result of a call that may raise.                    *)
(***************************************************************************)
Returned(v) == [raised |-> FALSE, value |-> v]

Raised(type, text) == [raised |-> TRUE, type |-> type, text |-> text]

\* int(s): surrounding whitespace and one sign allowed, then decimal digits;
\* anything else raises ValueError, whose text quotes the argument
int(s) ==
    LET t    == strip(s)
        sign == IF Len(t) > 0 /\ CharAt(t, 1) \in {"+", "-"} THEN CharAt(t, 1) ELSE ""
        body == SubSeq(t, Len(sign) + 1, Len(t))
    IN  IF AllDigits(body)
        THEN Returned(IF sign = "-" THEN 0 - DigitsVal(body) ELSE DigitsVal(body))
        ELSE Raised("ValueError", "invalid literal for int() with base 10: '" \o s \o "'")

(***************************************************************************)
(* datetime: a day number (date.toordinal()), the second of the day, and   *)
(* whether the value carries a UTC offset (aware) or not (naive).          *)
(***************************************************************************)
IsLeap(y) == (y % 4 = 0) /\ ((y % 100 # 0) \/ (y % 400 = 0))

DaysBeforeYear(y) == LET p == y - 1 IN 365 * p + (p \div 4) - (p \div 100) + (p \div 400)

DaysInMonth(y, m) == IF m = 2 THEN (IF IsLeap(y) THEN 29 ELSE 28)
                     ELSE IF m \in {4, 6, 9, 11} THEN 30 ELSE 31

RECURSIVE DaysBeforeMonth(_, _)
DaysBeforeMonth(y, m) == IF m <= 1 THEN 0
                         ELSE DaysBeforeMonth(y, m - 1) + DaysInMonth(y, m - 1)

\* the timestamp string with 'Z' replaced by '+00:00'
ReplaceZ(s) == IF Len(s) > 0 /\ CharAt(s, Len(s)) = "Z"
               THEN SubSeq(s, 1, Len(s) - 1) \o "+00:00" ELSE s

\* datetime.fromisoformat of YYYY-MM-DDTHH:MM:SS with an optional +HH:MM offset
fromisoformat(s) ==
    LET num(i, j) == SubSeq(s, i, j)
        shaped == /\ Len(s) \in {19, 25}
                  /\ AllDigits(num(1, 4)) /\ CharAt(s, 5) = "-"
                  /\ AllDigits(num(6, 7)) /\ CharAt(s, 8) = "-"
                  /\ AllDigits(num(9, 10)) /\ CharAt(s, 11) = "T"
                  /\ AllDigits(num(12, 13)) /\ CharAt(s, 14) = ":"
                  /\ AllDigits(num(15, 16)) /\ CharAt(s, 17) = ":"
                  /\ AllDigits(num(18, 19))
                  /\ Len(s) = 25 => /\ CharAt(s, 20) \in {"+", "-"}
                                    /\ AllDigits(num(21, 22)) /\ CharAt(s, 23) = ":"
                                    /\ AllDigits(num(24, 25))
        y  == DigitsVal(num(1, 4))
        m  == DigitsVal(num(6, 7))
        d  == DigitsVal(num(9, 10))
        hh == DigitsVal(num(12, 13))
        mi == DigitsVal(num(15, 16))
        ss == DigitsVal(num(18, 19))
        valid == /\ y >= 1 /\ m \in 1..12 /\ d >= 1 /\ d <= DaysInMonth(y, m)
                 /\ hh < 24 /\ mi < 60 /\ ss < 60
    IN  IF shaped /\ valid
        THEN Returned([ordinal |-> DaysBeforeYear(y) + DaysBeforeMonth(y, m) + d,
                       second  |-> 3600 * hh + 60 * mi + ss,
                       aware   |-> Len(s) = 25])
        ELSE Raised("ValueError", "Invalid isoformat string: '" \o s \o "'")

\* end_date - timedelta(days=days): OverflowError when the timedelta or the
\* resulting date is out of range
MinusDays(dt, days) ==
    IF days > MaxDeltaDays \/ days < 0 - MaxDeltaDays
    THEN Raised("OverflowError", "days out of range; must have magnitude <= 999999999")
    ELSE IF dt.ordinal - days < 1 \/ dt.ordinal - days > MaxOrdinal
    THEN Raised("OverflowError", "date value out of range")
    ELSE Returned([dt EXCEPT !.ordinal = dt.ordinal - days])

\* a >= b for datetimes: comparing an aware with a naive datetime raises TypeError
DatetimeGe(a, b) ==
    IF a.aware # b.aware
    THEN Raised("TypeError", "can't compare offset-naive and offset-aware datetimes")
    ELSE Returned(\/ a.ordinal > b.ordinal
                  \/ a.ordinal = b.ordinal /\ a.second >= b.second)

\* datetime.now(): a naive local time; the model's clock reads one of two days
first_now == [ordinal |-> FirstDay, second |-> 0, aware |-> FALSE]

later_now == [ordinal |-> FirstDay + 1, second |-> 0, aware |-> FALSE]

now_values == {first_now, later_now}

(***************************************************************************)
(* The Firestore store: each collection is the sequence of its documents   *)
(* in document-id order (the order of an unordered query's stream).  A     *)
(* document has a store-assigned id and a mapping of field names to values *)
(* (the mapping is what doc.to_dict() returns).                            *)
(***************************************************************************)
Collections == {"AlertsCheckIn", "Checklist", "DriverTrips", "Incidents"}

\* The Python values of a record's fields, by type: str, int, the store's
\* GeoPoint and timestamp (DatetimeWithNanoseconds) objects, dict and list.
Str(s) == [kind |-> "str", v |-> s]

Num(n) == [kind |-> "int", v |-> n]

GeoPoint(latitude, longitude) ==
    [kind |-> "GeoPoint", latitude |-> latitude, longitude |-> longitude]

Stamp(dt) == [kind |-> "datetime", v |-> dt]

Map(fields) == [kind |-> "dict", v |-> fields]

List(items) == [kind |-> "list", v |-> items]

\* the truth value of a Python value, as tested by `if value`
bool(value) ==
    CASE value.kind = "str"  -> value.v # ""
      [] value.kind = "int"  -> value.v # 0
      [] value.kind = "dict" -> DOMAIN value.v # {}
      [] value.kind = "list" -> value.v # <<>>
      [] OTHER               -> TRUE

\* the decimal digits of a natural number
RECURSIVE ToDecimal(_)
ToDecimal(n) ==
    IF n < 10 THEN CharAt(Digits, n + 1)
    ELSE ToDecimal(n \div 10) \o CharAt(Digits, (n % 10) + 1)

\* str(value) of a string or an integer (the other types keep a type name:
\* the unique-value fields of the model's documents hold strings and integers)
str(value) ==
    CASE value.kind = "str" -> value.v
      [] value.kind = "int" -> IF value.v < 0 THEN "-" \o ToDecimal(0 - value.v)
                               ELSE ToDecimal(value.v)
      [] OTHER              -> "<" \o value.kind \o ">"

\* a value made of JSON's own types only: strings, numbers, and mappings and
\* sequences of such
RECURSIVE JsonSafe(_)
JsonSafe(value) ==
    CASE value.kind \in {"str", "int"} -> TRUE
      [] value.kind = "dict" -> \A k \in DOMAIN value.v : JsonSafe(value.v[k])
      [] value.kind = "list" -> \A i \in 1..Len(value.v) : JsonSafe(value.v[i])
      [] OTHER               -> FALSE

RecordSafe(record) == \A k \in DOMAIN record : JsonSafe(record[k])


Doc(id, fields) == [id |-> id, fields |-> fields]

StoreEmpty == [c \in Collections |-> <<>>]

\* two tenants, a document whose tenant field is spelled EnterpriseId, values
\* with surrounding whitespace, empty values, duplicates, integers (one of
\* them 0), a timestamp, nested values and a geo point
StoreSmall ==
    [c \in Collections |->
        CASE c = "AlertsCheckIn" ->
               << Doc(1, [enterpriseId |-> Str("T1"), branch |-> Str("Filial SP"),
                          garage |-> Str("Sao Paulo")]),
                  Doc(2, [enterpriseId |-> Str("T2"), branch |-> Str("Filial RJ"),
                          garage |-> Str("Rio")]),
                  Doc(3, [enterpriseId |-> Str("T1"), branch |-> Str(" Filial SP "),
                          costCenter |-> Str("LOG")]),
                  Doc(4, [enterpriseId |-> Str("T1"), branch |-> Str("Filial BH"),
                          costCenter |-> Str("")]) >>
          [] c = "Checklist" ->
               << Doc(1, [EnterpriseId |-> Str("T1"), branch |-> Str("Filial MG")]),
                  Doc(2, [enterpriseId |-> Str("T1"), branch |-> Str("  "),
                          garage |-> Str("Campinas"), costCenter |-> Num(12)]) >>
          [] c = "DriverTrips" ->
               << Doc(1, [enterpriseId |-> Str("T1"), branch |-> Str("Centro"),
                          costCenter |-> Str("ADM"),
                          createdAt |-> Stamp([ordinal |-> 739403, second |-> 28800,
                                               aware |-> TRUE])]),
                  Doc(2, [enterpriseId |-> Str("T1"), garage |-> Str("Sao Paulo"),
                          costCenter |-> Num(0),
                          stops |-> List(<< Map([name |-> Str("Centro"), order |-> Num(1)]) >>)]) >>
          [] OTHER ->
               << Doc(1, [enterpriseId |-> Str("T2"), branch |-> Str("Filial RJ")]),
                  Doc(2, [enterpriseId |-> Str("T1"), branch |-> Str("Filial SP"),
                          location |-> GeoPoint(-23, -46)]) >> ]

\* one collection holding more documents of a tenant than the query limit
StoreBulk ==
    [c \in Collections |->
        IF c = "Checklist"
        THEN [i \in 1..BulkDocs |->
                Doc(i, [enterpriseId |-> Str("T1"), branch |-> Str("Filial SP")])]
        ELSE <<>> ]

Stores == {StoreEmpty, StoreSmall, StoreBulk}

\* the documents a query's filters select
Matches(doc, filters) ==
    \A i \in 1..Len(filters) :
        /\ filters[i].field \in DOMAIN doc.fields
        /\ doc.fields[filters[i].field] = Str(filters[i].value)

\* query.limit(n).stream(): the first n matching documents in id order
Stream(docs, filters, n) ==
    LET hit == SelectSeq(docs, LAMBDA d : Matches(d, filters))
    IN  SubSeq(hit, 1, IF Len(hit) < n THEN Len(hit) ELSE n)

Truthy(s) == s # ""

\* mutant: the filter is built on the capitalised spelling of the field
TenantFieldCapitalised == "EnterpriseId"

\* the name of the tenant field of the equality filter
TenantField == "enterpriseId"

\* mutant: the view passes on a limit parameter of the request
QueryLimitFromRequest(args) ==
    IF "limit" \in DOMAIN args /\ ~int(args["limit"]).raised
    THEN int(args["limit"]).value ELSE DefaultLimit

\* the limit get_firebase_collection is called with: no caller passes one
QueryLimit(args) == DefaultLimit

\* mutant: a read that raises marks Firebase as unavailable for the process
FlagClearedOnFault(flag, outcome) == flag /\ outcome # "raise"

\* what one read attempt leaves of the process's availability flag: the
\* function only reads it, also when the read raises
FlagAfterRead(flag, outcome) == flag

\* mutant: the result lists the documents' ids in place of their fields
ToRecordIdOnly(doc) == [id |-> Num(doc.id)]

\* one record of the result list: the document's field mapping
ToRecord(doc) == doc.fields

\* mutant: the query is not scoped to the tenant
TenantFiltersDropped(enterprise_id) == SubSeq(<< enterprise_id >>, 1, 0)

\* if enterprise_id: query = query.where("enterpriseId", "==", enterprise_id)
TenantFilters(enterprise_id) ==
    IF Truthy(enterprise_id)
    THEN << [field |-> TenantField, op |-> "==", value |-> enterprise_id] >>
    ELSE <<>>

\* mutant: the documents streamed are returned although the read raised
get_firebase_collection_unguarded(available, st, collection_name, enterprise_id, limit, outcome) ==
    IF ~available THEN [calls |-> <<>>, data |-> <<>>]
    ELSE LET filters == << [field |-> "enterpriseId", op |-> "==", value |-> enterprise_id] >>
             docs == Stream(st[collection_name], filters, limit)
         IN  [calls |-> << [kind |-> "firestore", collection |-> collection_name,
                            filters |-> filters, limit |-> limit] >>,
              data  |-> [i \in 1..Len(docs) |-> docs[i].fields]]

\* get_firebase_collection(collection_name, enterprise_id, limit): the query
\* it issues (none when Firebase is unavailable), and the list it returns;
\* outcome "raise" is a backend fault inside the try block
get_firebase_collection(available, st, collection_name, enterprise_id, limit, outcome) ==
    IF ~available THEN [calls |-> <<>>, data |-> <<>>]
    ELSE LET filters == TenantFilters(enterprise_id)
             call == [kind |-> "firestore", collection |-> collection_name,
                      filters |-> filters, limit |-> limit]
             docs == Stream(st[collection_name], filters, limit)
         IN  [calls |-> <<call>>,
              data  |-> IF outcome = "raise" THEN <<>>
                        ELSE [i \in 1..Len(docs) |-> ToRecord(docs[i])]]

FIREBASE_BI_API_BASE == "https://firebase-bi-api.onrender.com"

\* the collection the remote API serves under an endpoint name
RemoteCollection(endpoint) ==
    CASE endpoint = "alerts-checkin" -> "AlertsCheckIn"
      [] endpoint = "checklist"      -> "Checklist"
      [] endpoint = "driver-trips"   -> "DriverTrips"
      [] OTHER                       -> "Incidents"

\* fetch_data_from_firebase_bi(endpoint, enterprise_id, days): one HTTP GET.
\* The decoded JSON is returned whatever its shape when the status is 200;
\* a non-200 status or any exception gives [].  The remote service is an
\* environment: it answers with a list of the tenant's records ("list"),
\* with a JSON object ("object"), with an error status, or not at all.
fetch_data_from_firebase_bi(st, endpoint, enterprise_id, days, outcome) ==
    LET call == [kind |-> "http", url |-> FIREBASE_BI_API_BASE \o "/" \o endpoint,
                 enterpriseId |-> enterprise_id, days |-> days]
        docs == Stream(st[RemoteCollection(endpoint)],
                       << [field |-> "enterpriseId", op |-> "==", value |-> enterprise_id] >>,
                       DefaultLimit)
    IN  [calls |-> <<call>>,
         is_list |-> outcome # "object",
         data  |-> IF outcome = "list"
                   THEN [i \in 1..Len(docs) |-> docs[i].fields]
                   ELSE <<>>]

\* extract_unique_values(data, field_name): over the items of a list that
\* have the field, the stripped string form of each value that is truthy and
\* whose stripped string form is not empty, sorted; [] when data is not a list
extract_unique_values(is_list, data, field_name) ==
    IF ~is_list THEN <<>>
    ELSE sorted({ strip(str(data[i][field_name])) :
                    i \in { j \in 1..Len(data) :
                              /\ field_name \in DOMAIN data[j]
                              /\ bool(data[j][field_name])
                              /\ Truthy(strip(str(data[j][field_name]))) } })

Range(s) == { s[i] : i \in 1..Len(s) }

\* the four sources get_filtered_unique_values reads, in order
endpoints == << "alerts-checkin", "checklist", "driver-trips", "incidents" >>

\* one iteration of the loop of get_filtered_unique_values: the local read when
\* Firebase is available, the external API otherwise
ReadSource(available, st, endpoint, field_name, enterprise_id, days, outcome) ==
    IF available
    THEN LET r == get_firebase_collection(available, st, RemoteCollection(endpoint),
                                          enterprise_id, DefaultLimit, outcome)
         IN  [calls |-> r.calls, values |-> extract_unique_values(TRUE, r.data, field_name)]
    ELSE LET r == fetch_data_from_firebase_bi(st, endpoint, enterprise_id, days, outcome)
         IN  [calls |-> r.calls, values |-> extract_unique_values(r.is_list, r.data, field_name)]

(***************************************************************************)
(* The simulated collections of get_mock_collection_data.  Each holds one  *)
(* record; of its literal fields the model keeps id, enterpriseId and      *)
(* timestamp.                                                              *)
(***************************************************************************)
MockNames == << "vehicles", "tires", "suppliers", "userregistration", "trips", "sensors",
                "organization", "fuelregistration", "contractmanagement", "assettype",
                "alelo-supply-history" >>

mock_id(name) ==
    CASE name = "vehicles"             -> "vehicle_001"
      [] name = "tires"                -> "tire_001"
      [] name = "suppliers"            -> "supplier_001"
      [] name = "userregistration"     -> "user_001"
      [] name = "trips"                -> "trip_001"
      [] name = "sensors"              -> "sensor_001"
      [] name = "organization"         -> "org_001"
      [] name = "fuelregistration"     -> "fuel_001"
      [] name = "contractmanagement"   -> "contract_001"
      [] name = "assettype"            -> "assettype_001"
      [] OTHER                         -> "alelo_001"

mock_timestamp(name) ==
    CASE name = "sensors"              -> "2025-06-04T13:45:00Z"
      [] name = "fuelregistration"     -> "2025-06-01T07:30:00Z"
      [] name = "alelo-supply-history" -> "2025-06-01T12:30:00Z"
      [] OTHER                         -> "2025-06-01T08:00:00Z"

mock_data(name, enterprise_id) ==
    IF name \in Range(MockNames)
    THEN << [id |-> Str(mock_id(name)), enterpriseId |-> Str(enterprise_id),
             timestamp |-> Str(mock_timestamp(name))] >>
    ELSE <<>>

\* whether the period filter keeps an item: its timestamp is parsed to an aware
\* datetime and compared with the naive start_date; an item whose parse or
\* comparison raises is kept by the bare except
KeepsItem(item, start_date) ==
    LET text == IF "timestamp" \in DOMAIN item THEN item.timestamp.v
                ELSE "2025-06-01T00:00:00Z"
        item_date == fromisoformat(ReplaceZ(text))
    IN  IF item_date.raised THEN TRUE
        ELSE LET ge == DatetimeGe(item_date.value, start_date)
             IN  IF ge.raised THEN TRUE ELSE ge.value

\* get_mock_collection_data(collection_name, enterprise_id, days), at time now:
\* the records, or the exception the date arithmetic raises
get_mock_collection_data(collection_name, enterprise_id, days, now) ==
    LET start_date == MinusDays(now, days)
        collection_data == mock_data(collection_name, enterprise_id)
    IN  IF start_date.raised THEN start_date
        ELSE IF days # 0 /\ days > 0
        THEN Returned(SelectSeq(collection_data,
                                LAMBDA item : KeepsItem(item, start_date.value)))
        ELSE Returned(collection_data)

(***************************************************************************)
(* Routes and responses.                                                   *)
(***************************************************************************)
\* the views declared with @app.route, by kind
FirebaseRoutes == ("/alerts-checkin" :> "AlertsCheckIn") @@ ("/checklist" :> "Checklist")
                  @@ ("/driver-trips" :> "DriverTrips") @@ ("/incidents" :> "Incidents")

UniqueRoutes == ("/branch" :> "branch") @@ ("/garage" :> "garage")
                @@ ("/costcenter" :> "costCenter")

StaticRoutes == {"/", "/health"}

\* app.add_url_rule(f'/{collection_name}', ...) for each new collection
CollectionRule(collection_name) == "/" \o collection_name

\* the route table after the module is loaded
RegisteredRules(collections) ==
    StaticRoutes \cup DOMAIN FirebaseRoutes \cup DOMAIN UniqueRoutes
    \cup { CollectionRule(collections[i]) : i \in 1..Len(collections) }

\* request.args: the query parameters present in the request
HasArg(req, k) == k \in DOMAIN req.args

\* request.args.get('enterpriseId'), with None read as the empty string: the
\* handlers only test it with `not enterprise_id`
enterprise_id_of(req) == IF HasArg(req, "enterpriseId") THEN req.args["enterpriseId"] ELSE ""

\* int(request.args.get('days', 30))
days_of(req) == IF HasArg(req, "days") THEN int(req.args["days"]) ELSE Returned(DefaultDays)

\* the timestamp field: datetime.now().isoformat(), kept as the clock reading
isoformat(now) == now

Response(status, body) == [status |-> status, body |-> body]

MissingTenant == Response(400, [error |-> "enterpriseId é obrigatório"])

\* the except branch of every data view
ViewError(e) == Response(500, [error |-> "Erro interno do servidor", message |-> e.text])

\* @app.errorhandler(500): answers an exception that escapes a view
internal_error(now) ==
    Response(500, [error |-> "Erro interno do servidor",
                   message |-> "Verifique os logs para mais detalhes",
                   timestamp |-> isoformat(now)])

\* mutant: an empty result is answered as an error
FirebaseEnvelopeErrorWhenEmpty(collection, enterprise_id, data, now) ==
    IF data = <<>> THEN Response(404, [error |-> "Nenhum registro encontrado"])
    ELSE Response(200, [enterpriseId |-> enterprise_id, collection |-> collection,
                        count |-> Len(data), data |-> data, source |-> "Firebase Real",
                        timestamp |-> isoformat(now)])

\* mutant: count reports the query limit, not the number of records
FirebaseEnvelopeCountsLimit(collection, enterprise_id, data, now) ==
    Response(200, [enterpriseId |-> enterprise_id, collection |-> collection,
                   count |-> DefaultLimit, data |-> data, source |-> "Firebase Real",
                   timestamp |-> isoformat(now)])

\* the success envelope of the four Firebase views
FirebaseEnvelope(collection, enterprise_id, data, now) ==
    Response(200, [enterpriseId |-> enterprise_id, collection |-> collection,
                   count |-> Len(data), data |-> data, source |-> "Firebase Real",
                   timestamp |-> isoformat(now)])

\* the success envelope of /branch, /garage and /costcenter
UniqueEnvelope(field, enterprise_id, days, values, now) ==
    Response(200, [enterpriseId |-> enterprise_id, days |-> days, field |-> field,
                   count |-> Len(values), data |-> values,
                   source |-> "Extracted from existing APIs",
                   timestamp |-> isoformat(now)])

\* the success envelope of the simulated collection views
CollectionEnvelope(collection, enterprise_id, days, data, now) ==
    Response(200, [enterpriseId |-> enterprise_id, days |-> days, collection |-> collection,
                   count |-> Len(data), data |-> data,
                   source |-> "Simulated (ready for Firebase integration)",
                   timestamp |-> isoformat(now)])

\* mutant: the list of new collections is a stale copy that lacks the last one
AvailableEndpointsStale(collections) ==
    << "alerts-checkin", "checklist", "driver-trips", "incidents" >>
    \o << "branch", "garage", "costcenter" >>
    \o SubSeq(collections, 1, Len(collections) - 1)
    \o << "health" >>

\* the names not_found lists: the new collections are read from new_collections
AvailableEndpoints(collections) ==
    << "alerts-checkin", "checklist", "driver-trips", "incidents" >>
    \o << "branch", "garage", "costcenter" >>
    \o collections
    \o << "health" >>

\* @app.errorhandler(404)
not_found(collections) ==
    LET all_endpoints == AvailableEndpoints(collections)
    IN  Response(404, [error |-> "Endpoint não encontrado",
                       available_endpoints |-> all_endpoints,
                       total_endpoints |-> Len(all_endpoints),
                       usage |-> "/{endpoint}?enterpriseId=sA9EmrE3ymtnBqJKcYn7&days=30"])

FirebaseStatus(available) == IF available THEN "Connected" ELSE "Simulated"

\* GET /: the capability listing (its endpoint table kept as the set of paths)
index(available) ==
    Response(200, [name |-> "Firebase BI API - Versão Híbrida", version |-> "2.0.0",
                   firebase_status |-> FirebaseStatus(available),
                   endpoints |-> DOMAIN FirebaseRoutes \cup DOMAIN UniqueRoutes
                                 \cup { CollectionRule(MockNames[i]) : i \in 1..Len(MockNames) },
                   total_endpoints |-> 18])

\* GET /health
health_check(available, collections, now) ==
    Response(200, [status |-> "healthy", version |-> "2.0.0",
                   firebase_status |-> FirebaseStatus(available),
                   total_apis |-> 18,
                   existing_apis |-> << "alerts-checkin", "checklist", "driver-trips", "incidents" >>,
                   unique_value_apis |-> << "branch", "garage", "costcenter" >>,
                   new_collection_apis |-> collections,
                   timestamp |-> isoformat(now)])

(***************************************************************************)
(* Requests.                                                               *)
(***************************************************************************)
Workers == 1..NumWorkers

NoArgs == [k \in {} |-> ""]

Param(k, choice) == IF choice.present THEN (k :> choice.value) ELSE NoArgs

Absent == [present |-> FALSE, value |-> ""]

Given(v) == [present |-> TRUE, value |-> v]

TenantChoices == { Absent, Given(""), Given("T1"), Given("T2") }

\* days: absent, in range, zero, negative, padded, not a number, beyond the calendar
DaysChoices == { Absent, Given("30"), Given("0"), Given("-5"), Given(" 7 "),
                 Given("abc"), Given("800000") }

\* a limit parameter a client may send: no view reads it
LimitChoices == { Absent, Given("1000") }

Request(p, e, d, l) ==
    [path |-> p, args |-> Param("enterpriseId", e) @@ Param("days", d) @@ Param("limit", l)]

\* the Firebase views read no days: one valid and one invalid value are sent
FirebaseRequests ==
    { Request(p, e, d, l) : p \in DOMAIN FirebaseRoutes, e \in TenantChoices,
                            d \in { Absent, Given("abc") }, l \in LimitChoices }

UniqueRequests ==
    { Request(p, e, d, Absent) : p \in DOMAIN UniqueRoutes, e \in TenantChoices,
                                 d \in { Absent, Given(" 7 "), Given("abc") } }

CollectionRequests ==
    { Request(CollectionRule(MockNames[i]), e, d, Absent) :
      i \in 1..Len(MockNames), e \in TenantChoices, d \in DaysChoices }

OtherRequests ==
    { Request(p, e, Absent, Absent) : p \in StaticRoutes \cup { "/vehicle", "/checklist/" },
                                      e \in { Absent, Given("T1") } }

Requests == FirebaseRequests \cup UniqueRequests \cup CollectionRequests \cup OtherRequests

\* the requests of the concurrent specification
ConcurrentRequests ==
    { Request("/branch", Given("T1"), Absent, Absent),
      Request("/checklist", Given("T1"), Absent, Absent),
      Request("/checklist", Absent, Absent, Absent),
      Request("/sensors", Given("T2"), Absent, Absent),
      Request("/vehicle", Given("T1"), Absent, Absent) }

(***************************************************************************)
(* A worker process handling a request.  pc is "idle", "reading" (the view *)
(* has backend reads left) or "done" (the response is ready).              *)
(***************************************************************************)
NoRequest == [path |-> "", args |-> NoArgs]

NoTime == [ordinal |-> 0, second |-> 0, aware |-> FALSE]

NoResponse == Response(0, NoArgs)

IdleWorker ==
    [pc |-> "idle", req |-> NoRequest, now |-> NoTime, view |-> "", target |-> "",
     days |-> 0, idx |-> 0, all_values |-> {}, calls |-> <<>>, outcomes |-> <<>>,
     resp |-> NoResponse]

\* the view returns resp without reading the backend
Answered(req, now, resp) ==
    [IdleWorker EXCEPT !.pc = "done", !.req = req, !.now = now, !.resp = resp]

\* the view goes on to read the backend
Reading(req, now, view, target, days) ==
    [IdleWorker EXCEPT !.pc = "reading", !.req = req, !.now = now, !.view = view,
                       !.target = target, !.days = days]

\* get_alerts_checkin, get_checklist, get_driver_trips, get_incidents up to the read
BeginFirebaseView(req, now) ==
    IF ~Truthy(enterprise_id_of(req)) THEN Answered(req, now, MissingTenant)
    ELSE Reading(req, now, "firebase", FirebaseRoutes[req.path], 0)

\* get_branches, get_garages, get_cost_centers up to the first read: days is
\* converted before enterpriseId is tested
BeginUniqueView(req, now) ==
    LET days == days_of(req)
    IN  IF days.raised THEN Answered(req, now, ViewError(days))
        ELSE IF ~Truthy(enterprise_id_of(req)) THEN Answered(req, now, MissingTenant)
        ELSE Reading(req, now, "unique", UniqueRoutes[req.path], days.value)

\* the endpoint closure of create_collection_endpoint(collection_name, emoji)
CollectionView(collection_name, req, now) ==
    LET days == days_of(req)
    IN  IF days.raised THEN Answered(req, now, ViewError(days))
        ELSE IF ~Truthy(enterprise_id_of(req)) THEN Answered(req, now, MissingTenant)
        ELSE LET data == get_mock_collection_data(collection_name, enterprise_id_of(req),
                                                  days.value, now)
             IN  IF data.raised THEN Answered(req, now, ViewError(data))
                 ELSE Answered(req, now,
                               CollectionEnvelope(collection_name, enterprise_id_of(req),
                                                  days.value, data.value, now))

\* Flask's dispatch of a request: the view of the matching rule, or not_found
Dispatch(available, rules, collections, req, now) ==
    IF req.path \notin rules THEN Answered(req, now, not_found(collections))
    ELSE IF req.path = "/" THEN Answered(req, now, index(available))
    ELSE IF req.path = "/health"
         THEN Answered(req, now, health_check(available, collections, now))
    ELSE IF req.path \in DOMAIN FirebaseRoutes THEN BeginFirebaseView(req, now)
    ELSE IF req.path \in DOMAIN UniqueRoutes THEN BeginUniqueView(req, now)
    ELSE CollectionView(CHOOSE n \in Range(collections) : CollectionRule(n) = req.path,
                        req, now)

\* the outcomes the backend may give the next read of a worker in state me
Outcomes(me, available) ==
    IF available THEN {"ok", "raise"}
    ELSE IF me.view = "unique" THEN {"list", "object", "http_error", "raise"}
    ELSE {"none"}

\* what a worker records of a read's outcome: of the external API's answers
\* only a list of records yields values, the others are recorded as "empty"
Recorded(outcome) == IF outcome \in {"object", "http_error"} THEN "empty" ELSE outcome

\* the type names of the values that Flask's JSON provider cannot serialize: it
\* converts datetimes itself, any other object makes json.dumps raise TypeError
RECURSIVE Offending(_)
Offending(value) ==
    CASE value.kind \in {"str", "int", "datetime"} -> {}
      [] value.kind = "dict" -> UNION { Offending(value.v[k]) : k \in DOMAIN value.v }
      [] value.kind = "list" -> UNION { Offending(value.v[i]) : i \in 1..Len(value.v) }
      [] OTHER               -> { value.kind }

RecordOffending(record) == UNION { Offending(record[k]) : k \in DOMAIN record }

\* jsonify(...) of a Firebase view, inside the view's try: a value that cannot
\* be serialized raises TypeError naming its type, which the view's except
\* answers (the model's documents hold one such type)
jsonify(data, resp) ==
    LET bad == UNION { RecordOffending(data[i]) : i \in 1..Len(data) }
    IN  IF bad = {} THEN resp
        ELSE ViewError(Raised("TypeError",
                 "Object of type " \o (CHOOSE k \in bad : TRUE)
                     \o " is not JSON serializable"))

\* the read of a Firebase view and its response
FirebaseRead(me, available, st, outcome) ==
    LET r == get_firebase_collection(available, st, me.target, enterprise_id_of(me.req),
                                     QueryLimit(me.req.args), outcome)
    IN  [me EXCEPT !.pc = "done", !.idx = 1,
                   !.calls = @ \o r.calls, !.outcomes = Append(@, Recorded(outcome)),
                   !.resp = jsonify(r.data,
                                    FirebaseEnvelope(me.target, enterprise_id_of(me.req),
                                                     r.data, me.now))]

\* one iteration of get_filtered_unique_values; after the last one the view
\* answers with the sorted values
UniqueRead(me, available, st, outcome) ==
    LET r   == ReadSource(available, st, endpoints[me.idx + 1], me.target,
                          enterprise_id_of(me.req), me.days, outcome)
        all == me.all_values \cup Range(r.values)
        last == me.idx + 1 = Len(endpoints)
    IN  [me EXCEPT !.pc = IF last THEN "done" ELSE "reading", !.idx = @ + 1,
                   !.all_values = all,
                   !.calls = @ \o r.calls, !.outcomes = Append(@, Recorded(outcome)),
                   !.resp = IF last
                            THEN UniqueEnvelope(me.target, enterprise_id_of(me.req),
                                                me.days, sorted(all), me.now)
                            ELSE @]

\* the next backend read of a view
ViewRead(me, available, st, outcome) ==
    IF me.view = "firebase" THEN FirebaseRead(me, available, st, outcome)
    ELSE UniqueRead(me, available, st, outcome)

(***************************************************************************)
(* The state machine.                                                      *)
(***************************************************************************)
\* the module is loaded: the Firebase import succeeds or raises ImportError,
\* the routes are registered, no request is being handled
Init ==
    /\ \E ok \in BOOLEAN :
         /\ FIREBASE_AVAILABLE = [w \in Workers |-> ok]
         /\ db = [w \in Workers |-> IF ok THEN "client" ELSE "unbound"]
    /\ new_collections = MockNames
    /\ url_map = RegisteredRules(MockNames)
    /\ store \in Stores
    /\ workers = [w \in Workers |-> IdleWorker]

\* worker w receives a request at time now and runs its view up to the first
\* backend read
Receive(w, req, now) ==
    /\ workers[w].pc = "idle"
    /\ workers' = [workers EXCEPT
                     ![w] = Dispatch(FIREBASE_AVAILABLE[w], url_map, new_collections, req, now)]
    /\ UNCHANGED <<FIREBASE_AVAILABLE, db, new_collections, url_map, store>>

\* worker w's view makes its next backend read, which ends with outcome
Read(w, outcome) ==
    /\ workers[w].pc = "reading"
    /\ outcome \in Outcomes(workers[w], FIREBASE_AVAILABLE[w])
    /\ workers' = [workers EXCEPT
                     ![w] = ViewRead(workers[w], FIREBASE_AVAILABLE[w], store, outcome)]
    /\ FIREBASE_AVAILABLE' = [FIREBASE_AVAILABLE EXCEPT ![w] = FlagAfterRead(@, outcome)]
    /\ UNCHANGED <<db, new_collections, url_map, store>>

\* the response is sent and the request's objects are discarded
Finish(w) ==
    /\ workers[w].pc = "done"
    /\ workers' = [workers EXCEPT ![w] = IdleWorker]
    /\ UNCHANGED <<FIREBASE_AVAILABLE, db, new_collections, url_map, store>>

AllOutcomes == {"ok", "raise", "list", "object", "http_error", "none"}

\* one worker serving every request of Requests
Next ==
    \/ \E req \in Requests, now \in now_values : Receive(1, req, now)
    \/ \E outcome \in AllOutcomes : Read(1, outcome)
    \/ Finish(1)

Spec == Init /\ [][Next]_vars

\* every worker serving the requests of ConcurrentRequests, their reads
\* interleaved, over the store of two tenants
InitConcurrent == Init /\ store = StoreSmall

NextConcurrent ==
    \E w \in Workers :
        \/ \E req \in ConcurrentRequests : Receive(w, req, first_now)
        \/ \E outcome \in AllOutcomes : Read(w, outcome)
        \/ Finish(w)

SpecConcurrent == InitConcurrent /\ [][NextConcurrent]_vars

(***************************************************************************)
(* Vocabulary of the properties.                                           *)
(***************************************************************************)
Done(w) == workers[w].pc = "done"

\* the paths of the eighteen data endpoints
DataPaths == DOMAIN FirebaseRoutes \cup DOMAIN UniqueRoutes
             \cup { CollectionRule(MockNames[i]) : i \in 1..Len(MockNames) }

FirebasePaths == DOMAIN FirebaseRoutes

Tenant(w) == enterprise_id_of(workers[w].req)

Body(w) == workers[w].resp.body

Status(w) == workers[w].resp.status

\* the documents of a collection that carry tenant id t under the field name f
DocsWith(collection, f, t) ==
    SelectSeq(store[collection],
              LAMBDA d : f \in DOMAIN d.fields /\ d.fields[f] = Str(t))

Min(a, b) == IF a < b THEN a ELSE b

\* a Firebase view answered with its read completed normally
AnsweredFromStore(w) ==
    /\ Done(w) /\ workers[w].view = "firebase"
    /\ workers[w].outcomes = << "ok" >>
    /\ Status(w) = 200

(***************************************************************************)
(* C1: on every data endpoint and for every combination of the other query *)
(* parameters, a request whose enterpriseId is absent or empty is answered *)
(* 400 with {"error": "enterpriseId é obrigatório"} and makes no backend   *)
(* call.  The views that convert days first answer 500 when days is not a  *)
(* number.                                                                 *)
(***************************************************************************)
C1_MissingTenantIs400 ==
    \A w \in Workers :
        (Done(w) /\ workers[w].req.path \in DataPaths /\ ~Truthy(Tenant(w)))
            => /\ workers[w].resp = MissingTenant
               /\ workers[w].calls = <<>>

(***************************************************************************)
(* C2 as stated: the response of a store-backed resource reports, as the   *)
(* matched field, the first candidate field for which the store holds a    *)
(* matching document.                                                      *)
(***************************************************************************)
MatchedFieldKeys == {"matched_field", "matchedField", "field_used", "filter_field"}

C2_MatchedFieldReported ==
    \A w \in Workers :
        (AnsweredFromStore(w) /\ Len(DocsWith(workers[w].target, "enterpriseId", Tenant(w))) > 0)
            => \E k \in MatchedFieldKeys \cap DOMAIN Body(w) : Body(w)[k] = "enterpriseId"

(***************************************************************************)
(* C2 amended: a store-backed resource is queried with one equality filter *)
(* on the single field enterpriseId, in one query (none when Firebase is   *)
(* unavailable); no other field name is tried, so documents that carry the *)
(* tenant id under another field name are not returned, and the response   *)
(* names no matched field.                                                 *)
(***************************************************************************)
C2_SingleTenantField ==
    \A w \in Workers :
        (Done(w) /\ workers[w].view = "firebase")
            => /\ Len(workers[w].calls) = (IF FIREBASE_AVAILABLE[w] THEN 1 ELSE 0)
               /\ \A i \in 1..Len(workers[w].calls) :
                     workers[w].calls[i].filters =
                         << [field |-> "enterpriseId", op |-> "==", value |-> Tenant(w)] >>
               /\ MatchedFieldKeys \cap DOMAIN Body(w) = {}
               /\ Status(w) = 200 =>
                     Body(w).count <= Len(DocsWith(workers[w].target, "enterpriseId", Tenant(w)))

\* a document carrying the tenant id as EnterpriseId was left out of a non-empty answer
C2_Witness ==
    \E w \in Workers :
        /\ AnsweredFromStore(w)
        /\ Body(w).count > 0
        /\ Len(DocsWith(workers[w].target, "EnterpriseId", Tenant(w))) > 0

(***************************************************************************)
(* C3 as stated: when no candidate field matches a document, the answer is *)
(* 200 with count 0, data [] and a list of the candidate fields tried.     *)
(***************************************************************************)
DiagnosticKeys == {"fields_tried", "tried_fields", "candidates_tried", "attempted_fields"}

NothingMatches(w) ==
    /\ Done(w) /\ workers[w].view = "firebase"
    /\ Len(DocsWith(workers[w].target, "enterpriseId", Tenant(w))) = 0

C3_DiagnosticListGiven ==
    \A w \in Workers :
        NothingMatches(w)
            => /\ Status(w) = 200 /\ Body(w).count = 0 /\ Body(w).data = <<>>
               /\ DiagnosticKeys \cap DOMAIN Body(w) # {}

(***************************************************************************)
(* C3 amended: when a tenant id is given and no document of the resource's *)
(* collection matches it, the answer is 200 with count 0 and data [], and  *)
(* its body has the six envelope fields only: no list of fields tried.     *)
(***************************************************************************)
C3_EmptyResultIs200 ==
    \A w \in Workers :
        NothingMatches(w)
            => /\ Status(w) = 200 /\ Body(w).count = 0 /\ Body(w).data = <<>>
               /\ DOMAIN Body(w) = {"enterpriseId", "collection", "count", "data",
                                    "source", "timestamp"}

\* the query was made, ended normally and found nothing
C3_Witness ==
    \E w \in Workers :
        /\ NothingMatches(w) /\ AnsweredFromStore(w)
        /\ Len(workers[w].calls) = 1 /\ Len(store[workers[w].target]) > 0

(***************************************************************************)
(* C4 as stated: a backend fault during a resource request with a valid    *)
(* tenant id is answered 500, never 200.                                   *)
(***************************************************************************)
ReadRaised(w) == Done(w) /\ "raise" \in Range(workers[w].outcomes)

C4_FaultIs500 ==
    \A w \in Workers : ReadRaised(w) => Status(w) = 500

(***************************************************************************)
(* C4 amended: a backend fault during a resource request with a valid      *)
(* tenant id never escapes the view; it is caught inside the read, which   *)
(* then yields no records, and the request is answered 200: for a          *)
(* store-backed resource with count 0 and data [].                         *)
(***************************************************************************)
C4_FaultAnswered200Empty ==
    \A w \in Workers :
        ReadRaised(w)
            => /\ Status(w) = 200
               /\ workers[w].view = "firebase" => Body(w).count = 0 /\ Body(w).data = <<>>

\* the read of a collection holding documents of the tenant raised
C4_Witness ==
    \E w \in Workers :
        /\ ReadRaised(w) /\ workers[w].view = "firebase"
        /\ Len(DocsWith(workers[w].target, "enterpriseId", Tenant(w))) > 0

(***************************************************************************)
(* C5 as stated: every 200 response of a data endpoint carries collection, *)
(* enterpriseId (the request's tenant id), count, data, firebase_status    *)
(* ("connected" or "disconnected") and timestamp, and count is the number  *)
(* of elements of data.                                                    *)
(***************************************************************************)
DataSuccess(w) == Done(w) /\ workers[w].req.path \in DataPaths /\ Status(w) = 200

C5_SixEnvelopeFields ==
    \A w \in Workers :
        DataSuccess(w)
            => /\ {"collection", "enterpriseId", "count", "data", "firebase_status",
                   "timestamp"} \subseteq DOMAIN Body(w)
               /\ Body(w).enterpriseId = Tenant(w)
               /\ Body(w).firebase_status \in {"connected", "disconnected"}
               /\ Body(w).count = Len(Body(w).data)

(***************************************************************************)
(* C5 amended: every 200 response of a data endpoint carries enterpriseId  *)
(* (the request's tenant id), count, data, source and timestamp, and count *)
(* is the number of elements of data; it carries collection (the name of   *)
(* the collection read) on the four store-backed and the eleven simulated  *)
(* endpoints and field instead on /branch, /garage and /costcenter; it     *)
(* never carries firebase_status.                                          *)
(***************************************************************************)
CollectionOf(path) ==
    IF path \in FirebasePaths THEN FirebaseRoutes[path]
    ELSE CHOOSE n \in Range(MockNames) : CollectionRule(n) = path

C5_Envelope ==
    \A w \in Workers :
        DataSuccess(w)
            => LET path == workers[w].req.path
               IN  /\ {"enterpriseId", "count", "data", "source", "timestamp"}
                         \subseteq DOMAIN Body(w)
                   /\ Body(w).enterpriseId = Tenant(w)
                   /\ Body(w).count = Len(Body(w).data)
                   /\ Body(w).timestamp = workers[w].now
                   /\ "firebase_status" \notin DOMAIN Body(w)
                   /\ IF path \in DOMAIN UniqueRoutes
                      THEN /\ "collection" \notin DOMAIN Body(w)
                           /\ "field" \in DOMAIN Body(w)
                           /\ Body(w).field = UniqueRoutes[path]
                      ELSE /\ "collection" \in DOMAIN Body(w)
                           /\ Body(w).collection = CollectionOf(path)

\* a success of a store-backed endpoint with several records in data
C5_Witness ==
    \E w \in Workers :
        /\ DataSuccess(w) /\ workers[w].req.path \in FirebasePaths
        /\ Body(w).count > 1

(***************************************************************************)
(* C6: every error response (4xx or 5xx) carries only a stable error       *)
(* message that does not depend on the fault, plus a timestamp in the      *)
(* general-fault case; no field of its body holds text of the internal     *)
(* exception.  The views answer 500 with message = str(e).                 *)
(***************************************************************************)
C6_ErrorBodiesAreStable ==
    \A w \in Workers :
        (Done(w) /\ Status(w) >= 400)
            => \/ workers[w].resp = MissingTenant
               \/ workers[w].resp = not_found(new_collections)
               \/ workers[w].resp = internal_error(workers[w].now)

(***************************************************************************)
(* C7 as stated: every record in data of a success response of a           *)
(* store-backed resource carries its store-assigned document identifier as *)
(* the field _doc_id.                                                      *)
(***************************************************************************)
C7_DocIdAttached ==
    \A w \in Workers :
        (Done(w) /\ workers[w].view = "firebase" /\ Status(w) = 200)
            => \A i \in 1..Len(Body(w).data) : "_doc_id" \in DOMAIN Body(w).data[i]

(***************************************************************************)
(* C7 amended: every record in data of a success response of a             *)
(* store-backed resource is the stored document's own field mapping, in    *)
(* document order, without the store-assigned document identifier (no      *)
(* _doc_id field is added); a request matching 3 stored documents returns  *)
(* count 3 with the 3 documents' field mappings.                           *)
(***************************************************************************)
C7_RecordsAreFieldMappings ==
    \A w \in Workers :
        AnsweredFromStore(w)
            => LET hit == DocsWith(workers[w].target, "enterpriseId", Tenant(w))
               IN  /\ Body(w).count = Min(Len(hit), DefaultLimit)
                   /\ \A i \in 1..Len(Body(w).data) :
                         /\ Body(w).data[i] = hit[i].fields
                         /\ "_doc_id" \notin DOMAIN Body(w).data[i]

\* three stored documents match and three records are returned
C7_Witness ==
    \E w \in Workers :
        /\ AnsweredFromStore(w)
        /\ Len(DocsWith(workers[w].target, "enterpriseId", Tenant(w))) = 3
        /\ Body(w).count = 3

(***************************************************************************)
(* C8: a store-backed resource endpoint returns at most 100 records        *)
(* whatever the request's query parameters are and however many documents  *)
(* match: count <= 100 in every response that carries records, and every   *)
(* query is issued with limit 100.                                         *)
(***************************************************************************)
C8_AtMostLimitRecords ==
    \A w \in Workers :
        (Done(w) /\ workers[w].view = "firebase")
            => /\ Status(w) = 200 =>
                     /\ Body(w).count <= DefaultLimit
                     /\ Len(Body(w).data) <= DefaultLimit
               /\ \A i \in 1..Len(workers[w].calls) :
                     workers[w].calls[i].limit = DefaultLimit

\* more documents match than the limit, the request asks for limit=1000, and
\* exactly the limit is returned
C8_Witness ==
    \E w \in Workers :
        /\ AnsweredFromStore(w)
        /\ HasArg(workers[w].req, "limit")
        /\ Len(DocsWith(workers[w].target, "enterpriseId", Tenant(w))) > DefaultLimit
        /\ Body(w).count = DefaultLimit

(***************************************************************************)
(* C9: handling a request leaves the process-wide state (the route table   *)
(* and new_collections, the FIREBASE_AVAILABLE flag, the db handle) and    *)
(* the contents of the store unchanged; and under every interleaving of    *)
(* concurrent requests each response, its timestamp set aside, is the one  *)
(* the same request gets when it is handled alone, at another time,        *)
(* against the same store with the same backend outcomes.                  *)
(***************************************************************************)
RECURSIVE RunAlone(_, _, _, _)
RunAlone(me, outcomes, available, st) ==
    IF me.pc # "reading" \/ outcomes = <<>> THEN me
    ELSE RunAlone(ViewRead(me, available, st, Head(outcomes)), Tail(outcomes), available, st)

\* the request of worker w handled in one piece at the later clock reading
Alone(w) ==
    RunAlone(Dispatch(FIREBASE_AVAILABLE[w], url_map, new_collections,
                      workers[w].req, later_now),
             workers[w].outcomes, FIREBASE_AVAILABLE[w], store)

WithoutTimestamp(resp) ==
    [status |-> resp.status,
     body   |-> [k \in DOMAIN resp.body \ {"timestamp"} |-> resp.body[k]]]

C9_RequestsAreIsolated ==
    /\ [][UNCHANGED <<FIREBASE_AVAILABLE, db, new_collections, url_map, store>>]_vars
    /\ [](\A w \in Workers :
             Done(w) => /\ Alone(w).pc = "done"
                        /\ WithoutTimestamp(workers[w].resp) = WithoutTimestamp(Alone(w).resp))

\* a request that read all four sources is answered while another worker is
\* in the middle of its own reads
C9_Witness ==
    \E w, v \in Workers :
        /\ w # v
        /\ Done(w) /\ workers[w].view = "unique" /\ Body(w).count > 0
        /\ "raise" \in Range(workers[w].outcomes)
        /\ workers[v].pc = "reading" /\ workers[v].idx > 0

(***************************************************************************)
(* C10: a request to a path that is not a registered route is answered 404 *)
(* with a list of the available resources; the list names every registered *)
(* data endpoint and nothing that is not registered.                       *)
(***************************************************************************)
Listed(w) == { CollectionRule(Body(w).available_endpoints[i]) :
               i \in 1..Len(Body(w).available_endpoints) }

C10_NotFoundListsRoutes ==
    \A w \in Workers :
        Done(w) =>
            /\ Status(w) = 404 <=> workers[w].req.path \notin url_map
            /\ Status(w) = 404 =>
                  /\ DataPaths \subseteq Listed(w)
                  /\ Listed(w) \subseteq url_map
                  /\ Body(w).total_endpoints = Cardinality(Listed(w))

\* an unregistered path close to a registered one was requested
C10_Witness ==
    \E w \in Workers :
        /\ Done(w) /\ Status(w) = 404
        /\ workers[w].req.path = "/checklist/"

(***************************************************************************)
(* C11: the records returned are normalized, and normalizing again changes *)
(* nothing: every record placed in `data` of a store-backed resource is    *)
(* already in JSON-safe form (strings, numbers, mappings and sequences of  *)
(* such), so the request that read them is answered with them.  The code   *)
(* applies no normalization: get_firebase_collection returns               *)
(* doc.to_dict() as is, so the record placed in `data` is the stored one.  *)
(***************************************************************************)
C11_DataIsJsonSafe ==
    \A w \in Workers :
        (Done(w) /\ workers[w].view = "firebase" /\ workers[w].outcomes = << "ok" >>)
            => /\ Status(w) = 200
               /\ \A i \in 1..Len(Body(w).data) : RecordSafe(Body(w).data[i])

(***************************************************************************)
(* C12: tenant isolation.  Every backend query made for a request carries  *)
(* the request's tenant id T: a store query has the equality filter        *)
(* enterpriseId == T, a call to the remote API has enterpriseId = T.       *)
(* Every record in `data` has enterpriseId == T, and every value returned  *)
(* by /branch, /garage and /costcenter is taken from a record whose        *)
(* enterpriseId == T.  The response is the one the same request gets from  *)
(* a store holding the records of tenant T only.                           *)
(***************************************************************************)
OfTenant(doc, t) ==
    "enterpriseId" \in DOMAIN doc.fields /\ doc.fields["enterpriseId"] = Str(t)

\* the store reduced to the records of tenant t
TenantProjection(st, t) ==
    [c \in DOMAIN st |-> SelectSeq(st[c], LAMBDA d : OfTenant(d, t))]

\* the request of worker w handled against the records of its tenant only
OnProjection(w) ==
    RunAlone(Dispatch(FIREBASE_AVAILABLE[w], url_map, new_collections,
                      workers[w].req, workers[w].now),
             workers[w].outcomes, FIREBASE_AVAILABLE[w],
             TenantProjection(store, Tenant(w)))

ScopedToTenant(call, t) ==
    IF call.kind = "firestore"
    THEN \E i \in 1..Len(call.filters) :
            call.filters[i] = [field |-> "enterpriseId", op |-> "==", value |-> t]
    ELSE call.enterpriseId = t

C12_TenantIsolation ==
    \A w \in Workers :
        LET t == Tenant(w) IN
        /\ (workers[w].pc # "idle" /\ Truthy(t)) =>
              \A i \in 1..Len(workers[w].calls) : ScopedToTenant(workers[w].calls[i], t)
        /\ (Done(w) /\ Truthy(t) /\ Status(w) = 200
                /\ workers[w].req.path \in DataPaths \ DOMAIN UniqueRoutes) =>
              \A i \in 1..Len(Body(w).data) :
                 /\ "enterpriseId" \in DOMAIN Body(w).data[i]
                 /\ Body(w).data[i]["enterpriseId"] = Str(t)
        /\ (Done(w) /\ Truthy(t) /\ Status(w) = 200 /\ workers[w].view = "unique") =>
              \A i \in 1..Len(Body(w).data) :
                 \E c \in Collections : \E j \in 1..Len(store[c]) :
                    /\ OfTenant(store[c][j], t)
                    /\ Body(w).field \in DOMAIN store[c][j].fields
                    /\ strip(str(store[c][j].fields[Body(w).field])) = Body(w).data[i]
        /\ (Done(w) /\ Truthy(t)) =>
              /\ OnProjection(w).pc = "done"
              /\ OnProjection(w).resp = workers[w].resp

\* a tenant's request was answered with its records from a collection that
\* also holds another tenant's records
C12_Witness ==
    \E w \in Workers :
        /\ AnsweredFromStore(w)
        /\ Body(w).count > 0
        /\ \E j \in 1..Len(store[workers[w].target]) :
              /\ "enterpriseId" \in DOMAIN store[workers[w].target][j].fields
              /\ ~OfTenant(store[workers[w].target][j], Tenant(w))

(***************************************************************************)
(* C13: a simulated collection endpoint requested with days > 0 returns    *)
(* exactly the records of the collection whose timestamp is not earlier    *)
(* than now minus `days` days, so a record older than the window is        *)
(* excluded; with days <= 0 all records of the collection are returned.    *)
(***************************************************************************)
MockPaths == { CollectionRule(MockNames[i]) : i \in 1..Len(MockNames) }

\* the instant of the record's timestamp is not earlier than now minus days
InWindow(item, now, days) ==
    LET item_date == fromisoformat(ReplaceZ(item.timestamp.v)).value
    IN  \/ item_date.ordinal > now.ordinal - days
        \/ item_date.ordinal = now.ordinal - days /\ item_date.second >= now.second

C13_PeriodFilter ==
    \A w \in Workers :
        (Done(w) /\ workers[w].req.path \in MockPaths /\ Status(w) = 200)
            => LET all == mock_data(CollectionOf(workers[w].req.path), Tenant(w))
                   days == Body(w).days
               IN  Body(w).data =
                      IF days > 0
                      THEN SelectSeq(all, LAMBDA item : InWindow(item, workers[w].now, days))
                      ELSE all

(***************************************************************************)
(* C14: /branch, /garage and /costcenter with a tenant id query the four   *)
(* sources AlertsCheckIn, Checklist, DriverTrips, Incidents once each, in  *)
(* that order, with no retry; `data` is the ascending, duplicate-free      *)
(* union of the whitespace-stripped, non-empty string forms of the field's *)
(* values over the records obtained; a source whose read fails contributes *)
(* nothing, the remaining sources are still read and the response is 200.  *)
(***************************************************************************)
\* the records obtained from source i by the request of worker w
Obtained(w, i) ==
    IF workers[w].outcomes[i] \in {"ok", "list"}
    THEN LET hit == DocsWith(RemoteCollection(endpoints[i]), "enterpriseId", Tenant(w))
         IN  SubSeq(hit, 1, Min(Len(hit), DefaultLimit))
    ELSE <<>>

\* the stripped, non-empty string forms of the field's values over them
StringForms(w) ==
    UNION { { strip(str(Obtained(w, i)[j].fields[workers[w].target])) :
                j \in { k \in 1..Len(Obtained(w, i)) :
                          /\ workers[w].target \in DOMAIN Obtained(w, i)[k].fields
                          /\ strip(str(Obtained(w, i)[k].fields[workers[w].target])) # "" } } :
            i \in 1..Len(endpoints) }

QueriedSource(call) ==
    IF call.kind = "firestore" THEN call.collection
    ELSE CHOOSE c \in Collections :
            \E i \in 1..Len(endpoints) :
               /\ call.url = FIREBASE_BI_API_BASE \o "/" \o endpoints[i]
               /\ c = RemoteCollection(endpoints[i])

C14_UniqueValues ==
    \A w \in Workers :
        (Done(w) /\ workers[w].view = "unique")
            => /\ Len(workers[w].calls) = Len(endpoints)
               /\ \A i \in 1..Len(workers[w].calls) :
                     QueriedSource(workers[w].calls[i]) = RemoteCollection(endpoints[i])
               /\ Status(w) = 200
               /\ \A i \in 1..(Len(Body(w).data) - 1) :
                     StrLess(Body(w).data[i], Body(w).data[i + 1])
               /\ Range(Body(w).data) = StringForms(w)

====
